---------------------------- MODULE Spec2Model ----------------------------
(***************************************************************************)
(* A model of pyjinx's ConsoleApplication (src/pyjinx.py): the curses      *)
(* terminal it configures, the run() loop, the line editor parse_input     *)
(* and the default command dispatch parse_command.                         *)
(*                                                                         *)
(* Strings are sequences of character codes, a key is the integer getch    *)
(* returns.  A subclass may override tick and parse_command; `overridden`  *)
(* says whether the application object is such a subclass, and an          *)
(* overriding hook may complete, raise, or (tick) set the quit flag.       *)
(***************************************************************************)
EXTENDS Integers, Sequences, FiniteSets, TLC

VARIABLES
    tick_rate,   \* self.tick_rate: None, or the tick interval
    overridden,  \* the object is a subclass overriding tick/parse_command
    quit,        \* self.quit
    input_str,   \* self.input_str
    display,     \* self.display: None or a window
    command,     \* self.command: None or a window
    screen,      \* the terminal: "shell" (before initscr/after endwin) or "curses"
    echo,        \* terminal echo (curses.echo / noecho)
    cbreak,      \* terminal cbreak mode (curses.cbreak / nocbreak)
    keypad,      \* keypad decoding of the command window
    nodelay,     \* non-blocking reads on the command window
    pc,          \* position of the thread of control
    err,         \* the error raised inside run()'s try block, if any
    raised,      \* the error run() raised to its caller, if any
    ticks,       \* tick invocations in this run()
    keys,        \* keystrokes read (getch results >= 0) in this run()
    cleanups,    \* cleanup_screen invocations in this run()
    calls,       \* arguments of the parse_command calls of the last parse_input
    script,      \* progress of the keys of this run() along q,u,i,t,newline
    start,       \* the buffer when the line-editor harness started
    typed,       \* the keys the line-editor harness has fed to parse_input
    rows,        \* self.rows
    cols,        \* self.cols
    written,     \* the arguments of the last addstr call on the display window
    cmdwin,      \* the text the command window shows
    late,        \* steps of this run()'s loop taken with the quit flag already set
    work,        \* CPU seconds the hooks of one loop iteration consume
    wait,        \* seconds the user lets pass before a key is there to read
    cpu,         \* CPU seconds consumed since `time` was last taken
    wall,        \* seconds elapsed since `time` was last taken
    dt,          \* the dt passed to the last tick call
    gap          \* seconds that had elapsed since the previous tick, at that call

term == <<screen, echo, cbreak, keypad, nodelay>>
wins == <<display, command>>
conf == <<tick_rate, overridden>>
hist == <<ticks, keys, cleanups, script>>
edit == <<start, typed>>
geom == <<rows, cols, written>>
env == <<work, wait>>
clock == <<cpu, wall, dt, gap>>
vars == <<tick_rate, overridden, quit, input_str, display, command, screen,
          echo, cbreak, keypad, nodelay, pc, err, raised, ticks, keys,
          cleanups, calls, script, start, typed, rows, cols, written, cmdwin,
          late, work, wait, cpu, wall, dt, gap>>

---------------------------------------------------------------------------
(* Bounds of the model. *)

\* loop iterations (tick invocations) explored in one run()
MaxIter == 5
\* longest input buffer explored by the run() loop
MaxLen == 4
\* keystrokes fed to parse_input by the line-editor harness
MaxEditKeys == 3
\* longest command string handed to parse_command by the dispatch harness
MaxCmdLen == 5
\* largest display window (rows, columns) explored by the message harness
MaxRows == 3
MaxCols == 21
\* longest message handed to alert_message and top_message
MaxMsgLen == 4
\* most CPU seconds the hooks of one iteration take, most seconds the user
\* waits before typing a key
MaxWork == 1
MaxWait == 1

---------------------------------------------------------------------------
(* Values of the program. *)

\* Python's None, as the value of tick_rate, display and command
None == -1
\* a concrete tick interval (the default is 1/30 s), in clock units
TickRate == 1
\* what getch returns in nodelay mode when no key is ready
NoInput == -1
\* curses.ascii.NL, curses.ascii.BS, curses.ascii.CR
NL == 10
BS == 8
CR == 13
\* a window object returned by curses.newwin
Window == 1

NoError == "none"
TickError == "TickError"
CommandError == "CommandError"
CursesError == "curses.error"
AttributeError == "AttributeError"

\* 'quit'
QuitCmd == <<113, 117, 105, 116>>
\* the keys q, u, i, t, newline
QuitKeys == QuitCmd \o <<NL>>

---------------------------------------------------------------------------
(* curses.ascii *)

\* mutant: isascii for isprint, every code 0..127 counts as printable
IsPrintAscii(c) == 0 <= c /\ c <= 127

\* curses.ascii.isprint(c): 32 <= _ctoi(c) <= 126
IsPrint(c) == 32 <= c /\ c <= 126

\* x | 0x20
Or32(x) == IF (x \div 32) % 2 = 1 THEN x ELSE x + 32

\* curses.ascii.unctrl(c), as the string of character codes it returns
Unctrl(c) ==
    LET low == c % 128
        rep == IF c = 127 THEN <<94, 63>>
               ELSE IF IsPrint(low) THEN <<low>>
               ELSE <<94, Or32(low) + 32>>
    IN  IF (c \div 128) % 2 = 1 THEN <<33>> \o rep ELSE rep

---------------------------------------------------------------------------
(* The line editor and the command dispatch. *)

\* str.upper() on a string
Upper(s) == [i \in 1..Len(s) |-> IF 97 <= s[i] /\ s[i] <= 122 THEN s[i] - 32 ELSE s[i]]

\* str.lower() on a string
Lower(s) == [i \in 1..Len(s) |-> IF 65 <= s[i] /\ s[i] <= 90 THEN s[i] + 32 ELSE s[i]]

\* mutant: the first character is dropped (s[1:])
ButFirst(s) == IF Len(s) = 0 THEN s ELSE SubSeq(s, 2, Len(s))

\* s[:-1]
ButLast(s) == IF Len(s) = 0 THEN s ELSE SubSeq(s, 1, Len(s) - 1)

\* mutant: the command is compared with its newline still attached
ParseCommandNewline(q, cmd) == IF cmd = QuitCmd \o <<NL>> THEN TRUE ELSE q

\* mutant: the command is compared ignoring case
ParseCommandAnyCase(q, cmd) == IF Lower(cmd) = QuitCmd THEN TRUE ELSE q

\* parse_command(cmd) of ConsoleApplication: the quit flag after the call
ParseCommand(q, cmd) == IF cmd = QuitCmd THEN TRUE ELSE q

\* mutant: the key is appended as it is, printable or not
AppendPrintableRaw(s, ch) == s \o <<ch>>

\* mutant: a printable key replaces the buffer (= for +=)
AppendPrintableReplace(s, ch) == IF IsPrint(ch) THEN Unctrl(ch) ELSE s

\* the first check of parse_input: a printable key is appended
AppendPrintable(s, ch) == IF IsPrint(ch) THEN s \o Unctrl(ch) ELSE s

\* mutant: carriage return submits too
IsSubmitOrCR(ch) == ch \in {NL, CR}

\* the second check of parse_input: on NL the buffer is dispatched and then
\* cleared; an overriding parse_command that raises ends parse_input there
IsSubmit(ch) == ch = NL

\* the third check of parse_input: BS drops the last character
IsErase(ch) == ch = BS

\* mutant: the buffer is cleared before it is dispatched
ParseInputClearFirst(s, q, ch, cmdRaises) ==
    LET s1 == AppendPrintable(s, ch)
        s2 == IF IsSubmit(ch) THEN <<>> ELSE s1
        fails == IsSubmit(ch) /\ cmdRaises
        q2 == IF IsSubmit(ch) /\ ~fails THEN ParseCommand(q, s2) ELSE q
        s3 == IF ~fails /\ IsErase(ch) THEN ButLast(s2) ELSE s2
    IN  [input_str |-> s3,
         quit |-> q2,
         err |-> IF fails THEN CommandError ELSE NoError,
         calls |-> IF IsSubmit(ch) THEN <<s2>> ELSE <<>>]

\* parse_input(ch) on buffer s and quit flag q; cmdRaises: the (overriding)
\* parse_command raises.  The result is the buffer, the quit flag, the error
\* that leaves parse_input and the arguments parse_command was called with.
ParseInput(s, q, ch, cmdRaises) ==
    LET s1 == AppendPrintable(s, ch)
        fails == IsSubmit(ch) /\ cmdRaises
        q2 == IF IsSubmit(ch) /\ ~fails THEN ParseCommand(q, s1) ELSE q
        s2 == IF IsSubmit(ch) /\ ~fails THEN <<>> ELSE s1
        s3 == IF ~fails /\ IsErase(ch) THEN ButLast(s2) ELSE s2
    IN  [input_str |-> s3,
         quit |-> q2,
         err |-> IF fails THEN CommandError ELSE NoError,
         calls |-> IF IsSubmit(ch) THEN <<s1>> ELSE <<>>]

---------------------------------------------------------------------------
(* The state after ConsoleApplication(tick_rate). *)

Construct ==
    /\ tick_rate \in {None, TickRate}
    /\ overridden \in BOOLEAN
    /\ quit = FALSE
    /\ input_str = <<>>
    /\ display = None
    /\ command = None
    /\ rows = 0
    /\ cols = 0
    /\ written = <<>>

\* the terminal as the shell leaves it
Shell ==
    /\ screen = "shell"
    /\ echo = TRUE
    /\ cbreak = FALSE
    /\ keypad = FALSE
    /\ nodelay = FALSE

NoHistory ==
    /\ err = NoError
    /\ raised = NoError
    /\ ticks = 0
    /\ keys = 0
    /\ cleanups = 0
    /\ calls = <<>>
    /\ script = -1
    /\ start = <<>>
    /\ typed = <<>>

\* no loop step taken with the quit flag set
NoLate == [ticks |-> 0, reads |-> 0, redraws |-> 0, sleeps |-> 0]

\* no time measured yet
NoClock ==
    /\ cpu = 0
    /\ wall = 0
    /\ dt = 0
    /\ gap = 0

\* nothing observed of a loop: no command window drawn, no step counted, no
\* time measured
NoLoop ==
    /\ cmdwin = <<>>
    /\ late = NoLate
    /\ NoClock

\* hooks that take no measurable CPU time, a user whose keys are typed ahead
Instant ==
    /\ work = 0
    /\ wait = 0

\* " > "
Prompt == <<32, 62, 32>>

Init ==
    /\ Construct
    /\ Shell
    /\ NoHistory
    /\ NoLoop
    /\ Instant
    /\ pc = "idle"


---------------------------------------------------------------------------
(* run(): one action per step of the try block and one for the finally. *)

\* keys the terminal delivers to the run() loop
RunKeys == {BS, NL, CR} \cup {QuitCmd[i] : i \in 1..Len(QuitCmd)}

\* mutant: getch never blocks
ReadableNoDelay == {NoInput} \cup RunKeys

\* mutant: getch always blocks
ReadableBlocking == RunKeys

\* what getch can return: NoInput only on a nodelay window
Readable == IF nodelay THEN {NoInput} \cup RunKeys ELSE RunKeys

\* the outcomes of tick: the default does nothing, an override may also set
\* the quit flag or raise
TickOutcomes == IF overridden THEN {"pass", "quit", "raise"} ELSE {"pass"}

\* whether parse_command can raise: only an override can
CommandOutcomes == IF overridden THEN {FALSE, TRUE} ELSE {FALSE}

\* the progress along q,u,i,t,newline of the keys read in this run(), after
\* key ch: the number of keys matched so far, Len(QuitKeys) + 1 once a key
\* was read after the whole script, -1 once the keys have left the script
ScriptAfter(n, ch) ==
    IF n = -1 THEN -1
    ELSE IF n >= Len(QuitKeys) THEN Len(QuitKeys) + 1
    ELSE IF ch = QuitKeys[n + 1] THEN n + 1
    ELSE -1

\* a call of run() on the application object, the first or a later one
Run ==
    /\ pc \in {"idle", "returned"}
    /\ pc' = "init_screen"
    /\ ticks' = 0
    /\ keys' = 0
    /\ cleanups' = 0
    /\ calls' = <<>>
    /\ err' = NoError
    /\ raised' = NoError
    /\ script' = IF tick_rate = None /\ ~overridden /\ input_str = <<>> /\ ~quit
                 THEN 0 ELSE -1
    /\ late' = NoLate
    /\ cpu' = 0
    /\ wall' = 0
    /\ dt' = 0
    /\ gap' = 0
    /\ UNCHANGED <<cmdwin, env, geom, edit, conf, quit, input_str, wins, term>>

\* LINES, COLS = stdscr.getmaxyx() of the terminal run() is started on
TermLines == 24
TermCols == 80

\* the number of steps of init_screen that can fail
InitSteps == 8

\* init_screen(): step k took effect unless init_screen failed at or before it
\* (failAt = 0: no step failed).  1 initscr, 2 start_color and init_pair,
\* 3 newwin (display), 4 newwin (command) and then rows, cols, 5 noecho,
\* 6 cbreak, 7 nodelay, 8 keypad.
InitScreen ==
    /\ pc = "init_screen"
    /\ \E failAt \in 0..InitSteps :
        LET Done(k) == failAt = 0 \/ k < failAt IN
        /\ failAt = 7 => tick_rate # None
        /\ screen' = IF Done(1) THEN "curses" ELSE screen
        /\ display' = IF Done(3) THEN Window ELSE display
        /\ command' = IF Done(4) THEN Window ELSE command
        /\ echo' = IF Done(5) THEN FALSE ELSE echo
        /\ cbreak' = IF Done(6) THEN TRUE ELSE cbreak
        /\ nodelay' = IF Done(7) /\ tick_rate # None THEN TRUE ELSE nodelay
        /\ keypad' = IF Done(8) THEN TRUE ELSE keypad
        /\ err' = IF failAt = 0 THEN NoError ELSE CursesError
        /\ pc' = IF failAt = 0 THEN "setup" ELSE "cleanup"
        /\ rows' = IF Done(4) THEN TermLines - 2 ELSE rows
        /\ cols' = IF Done(4) THEN TermCols ELSE cols
        /\ cmdwin' = IF Done(4) THEN <<>> ELSE cmdwin
    /\ UNCHANGED <<late, env, clock, written, edit, conf, quit, input_str, raised,
                   hist, calls>>

\* setup(): the prompt is drawn in the new command window; then
\* time = process_time()
Setup ==
    /\ pc = "setup"
    /\ pc' = "while"
    /\ cmdwin' = Prompt
    /\ cpu' = 0
    /\ wall' = 0
    /\ UNCHANGED <<late, env, dt, gap, geom, edit, conf, quit, input_str, wins,
                   term, err, raised, hist, calls>>

\* mutant: the loop never tests the quit flag
WhileTrue ==
    /\ pc = "while"
    /\ pc' = "tick"
    /\ UNCHANGED <<cmdwin, late, env, clock, geom, edit, conf, quit, input_str,
                   wins, term, err, raised, hist, calls>>

\* while not self.quit
While ==
    /\ pc = "while"
    /\ pc' = IF ~quit THEN "tick" ELSE "cleanup"
    /\ UNCHANGED <<cmdwin, late, env, clock, geom, edit, conf, quit, input_str,
                   wins, term, err, raised, hist, calls>>

\* dt = process_time() - time, time = process_time(), then self.tick(dt),
\* whose work consumes CPU time
Tick ==
    /\ pc = "tick"
    /\ ticks < MaxIter
    /\ ticks' = ticks + 1
    /\ dt' = cpu
    /\ gap' = wall
    /\ cpu' = work
    /\ wall' = work
    /\ late' = IF quit THEN [late EXCEPT !.ticks = @ + 1] ELSE late
    /\ \E outcome \in TickOutcomes :
        /\ quit' = IF outcome = "quit" THEN TRUE ELSE quit
        /\ err' = IF outcome = "raise" THEN TickError ELSE err
        /\ pc' = IF outcome = "raise" THEN "cleanup" ELSE "getch"
    /\ UNCHANGED <<cmdwin, env, geom, edit, conf, input_str, wins, term, raised, keys, cleanups,
                   script, calls>>

\* ch = self.command.getch() returning ch, a blocking read once the user has
\* typed the key; then parse_input(ch) if ch >= 0
GetchKey(ch, cmdRaises) ==
    LET r == IF ch >= 0 THEN ParseInput(input_str, quit, ch, cmdRaises)
             ELSE [input_str |-> input_str, quit |-> quit, err |-> NoError,
                   calls |-> <<>>]
    IN  /\ pc = "getch"
        /\ ch \in Readable
        /\ IsPrint(ch) => Len(input_str) < MaxLen
        /\ input_str' = r.input_str
        /\ quit' = r.quit
        /\ calls' = r.calls
        /\ err' = r.err
        /\ pc' = IF r.err = NoError THEN "redraw" ELSE "cleanup"
        /\ keys' = IF ch >= 0 THEN keys + 1 ELSE keys
        /\ script' = IF ch >= 0 THEN ScriptAfter(script, ch) ELSE script
        /\ wall' = IF nodelay THEN wall ELSE wall + wait
        /\ late' = IF quit THEN [late EXCEPT !.reads = @ + 1] ELSE late
        /\ UNCHANGED <<cmdwin, env, cpu, dt, gap, geom, edit, conf, wins, term,
                       raised, ticks, cleanups>>

Getch == \E ch \in Readable, cmdRaises \in CommandOutcomes : GetchKey(ch, cmdRaises)

\* mutant: the command window is not cleared before the prompt is drawn
RedrawnOver(old, s) == old \o Prompt \o s

\* command.clear(), command.addstr(" > " + self.input_str): what the command
\* window shows after them, having shown old
Redrawn(old, s) == Prompt \o s

\* the redraw of the command window
Redraw ==
    /\ pc = "redraw"
    /\ pc' = IF tick_rate # None THEN "sleep" ELSE "while"
    /\ cmdwin' = Redrawn(cmdwin, input_str)
    /\ late' = IF quit THEN [late EXCEPT !.redraws = @ + 1] ELSE late
    /\ UNCHANGED <<env, clock, geom, edit, conf, quit, input_str, wins, term,
                   err, raised, hist, calls>>

\* sleep(self.tick_rate)
Sleep ==
    /\ pc = "sleep"
    /\ pc' = "while"
    /\ wall' = wall + tick_rate
    /\ late' = IF quit THEN [late EXCEPT !.sleeps = @ + 1] ELSE late
    /\ UNCHANGED <<cmdwin, env, cpu, dt, gap, geom, edit, conf, quit, input_str,
                   wins, term, err, raised, hist, calls>>

\* mutant: the error of the try block is swallowed
PropagatedSwallowed == IF command = None THEN AttributeError ELSE NoError

\* the error that leaves run(): the one cleanup_screen raises when
\* self.command is None, else the one the try block raised, if any
Propagated == IF command = None THEN AttributeError ELSE err

\* mutant: cleanup_screen without endwin
CleanupNoEndwin ==
    /\ pc = "cleanup"
    /\ cleanups' = cleanups + 1
    /\ raised' = Propagated
    /\ IF command = None
       THEN UNCHANGED term
       ELSE /\ keypad' = FALSE
            /\ nodelay' = IF tick_rate # None THEN FALSE ELSE nodelay
            /\ cbreak' = FALSE
            /\ echo' = TRUE
            /\ screen' = screen
    /\ pc' = "returned"
    /\ UNCHANGED <<cmdwin, late, env, clock, geom, edit, conf, quit, input_str,
                   wins, err, ticks, keys, script, calls>>

\* finally: cleanup_screen(), after which run() returns or raises
Cleanup ==
    /\ pc = "cleanup"
    /\ cleanups' = cleanups + 1
    /\ raised' = Propagated
    /\ IF command = None
       THEN UNCHANGED term
       ELSE /\ keypad' = FALSE
            /\ nodelay' = IF tick_rate # None THEN FALSE ELSE nodelay
            /\ cbreak' = FALSE
            /\ echo' = TRUE
            /\ screen' = "shell"
    /\ pc' = "returned"
    /\ UNCHANGED <<cmdwin, late, env, clock, geom, edit, conf, quit, input_str, wins, err, ticks, keys, script,
                   calls>>

Next ==
    \/ Run
    \/ InitScreen
    \/ Setup
    \/ While
    \/ Tick
    \/ Getch
    \/ Redraw
    \/ Sleep
    \/ Cleanup

Spec == Init /\ [][Next]_vars

\* run() at a terminal where the user never types: no read returns a key.
NextIdle ==
    \/ Run
    \/ InitScreen
    \/ Setup
    \/ While
    \/ Tick
    \/ GetchKey(NoInput, FALSE)
    \/ Redraw
    \/ Sleep
    \/ Cleanup

\* The single thread of control keeps running: every step of run() that is
\* not waiting for a key is taken (a read on a nodelay window returns at
\* once, a sleep ends).  Nothing forces the caller to call run() again.
Fairness ==
    WF_vars(InitScreen \/ Setup \/ While \/ Tick \/ GetchKey(NoInput, FALSE)
            \/ Redraw \/ Sleep \/ Cleanup)

IdleSpec == Init /\ [][NextIdle]_vars /\ Fairness

\* run() at a terminal where the user types q, u, i, t, newline, each key
\* when they please or never, the hooks taking some CPU time: a read returns
\* the next of these keys or, on a nodelay window, no key.
InitTyping ==
    /\ Construct
    /\ Shell
    /\ NoHistory
    /\ NoLoop
    /\ work \in 0..MaxWork
    /\ wait \in 0..MaxWait
    /\ pc = "idle"

\* the user has typed the next key of q, u, i, t, newline and getch returns it
Typed ==
    /\ keys < Len(QuitKeys)
    /\ \E cmdRaises \in CommandOutcomes : GetchKey(QuitKeys[keys + 1], cmdRaises)

NextTyping ==
    \/ Run
    \/ InitScreen
    \/ Setup
    \/ While
    \/ Tick
    \/ Typed
    \/ GetchKey(NoInput, FALSE)
    \/ Redraw
    \/ Sleep
    \/ Cleanup

TypingSpec == InitTyping /\ [][NextTyping]_vars /\ Fairness

---------------------------------------------------------------------------
(* The line editor alone: parse_input called directly on an application    *)
(* object, key after key, as a test of the editor does.                    *)

\* key codes fed to parse_input: BS, NL, CR, US, space, 't', '~', DEL, 0xff,
\* KEY_BACKSPACE
EditKeys == {BS, NL, CR, 31, 32, 116, 126, 127, 255, 263}

\* the buffers the editor starts from: '', 'qui', 'quit'
EditStarts == {SubSeq(QuitCmd, 1, n) : n \in {0, 3, 4}}

InitEdit ==
    /\ tick_rate = None
    /\ overridden \in BOOLEAN
    /\ quit \in BOOLEAN
    /\ input_str \in EditStarts
    /\ start = input_str
    /\ typed = <<>>
    /\ display = None
    /\ command = None
    /\ rows = 0
    /\ cols = 0
    /\ written = <<>>
    /\ Shell
    /\ err = NoError
    /\ raised = NoError
    /\ ticks = 0
    /\ keys = 0
    /\ cleanups = 0
    /\ calls = <<>>
    /\ script = -1
    /\ NoLoop
    /\ Instant
    /\ pc = "edit"

\* parse_input(ch), called directly
EditKey(ch, cmdRaises) ==
    LET r == ParseInput(input_str, quit, ch, cmdRaises)
    IN  /\ pc = "edit"
        /\ Len(typed) < MaxEditKeys
        /\ typed' = Append(typed, ch)
        /\ input_str' = r.input_str
        /\ quit' = r.quit
        /\ calls' = r.calls
        /\ err' = r.err
        /\ raised' = r.err
        /\ pc' = IF r.err = NoError THEN "edit" ELSE "edit_raised"
        /\ UNCHANGED <<cmdwin, late, env, clock, geom, start, conf, wins, term, hist>>

NextEdit == \E ch \in EditKeys, cmdRaises \in CommandOutcomes : EditKey(ch, cmdRaises)

SpecEdit == InitEdit /\ [][NextEdit]_vars

---------------------------------------------------------------------------
(* The command dispatch alone: parse_command(self.input_str) called        *)
(* directly on an application object holding a command line.               *)

\* the characters of the command lines dispatched: space, i, q, t, u
CmdChars == {32} \cup {QuitCmd[i] : i \in 1..Len(QuitCmd)}

\* the strings of at most n of these characters
StringsUpTo(n) == UNION {[1..k -> CmdChars] : k \in 0..n}

\* the command lines dispatched: every such string and its upper-case form
CmdInputs == LET low == StringsUpTo(MaxCmdLen) IN low \cup {Upper(s) : s \in low}

InitCmd ==
    /\ tick_rate = None
    /\ overridden = FALSE
    /\ quit \in BOOLEAN
    /\ input_str \in CmdInputs
    /\ start = input_str
    /\ typed = <<>>
    /\ display = None
    /\ command = None
    /\ rows = 0
    /\ cols = 0
    /\ written = <<>>
    /\ Shell
    /\ err = NoError
    /\ raised = NoError
    /\ ticks = 0
    /\ keys = 0
    /\ cleanups = 0
    /\ calls = <<>>
    /\ script = -1
    /\ NoLoop
    /\ Instant
    /\ pc = "dispatch"

\* self.parse_command(self.input_str), called directly
Dispatch ==
    /\ pc = "dispatch"
    /\ quit' = ParseCommand(quit, input_str)
    /\ calls' = <<input_str>>
    /\ pc' = "dispatched"
    /\ UNCHANGED <<cmdwin, late, env, clock, geom, edit, conf, input_str, wins, term, err, raised, hist>>

NextCmd == Dispatch

SpecCmd == InitCmd /\ [][NextCmd]_vars

---------------------------------------------------------------------------
(* The message overlays alone: one call of alert_message or top_message on *)
(* an application object whose init_screen has run on a terminal of some   *)
(* size.                                                                   *)

\* the messages written: the strings of at most MaxMsgLen of ' ' and 'x'
Messages == UNION {[1..k -> {32, 120}] : k \in 0..MaxMsgLen}

\* the color pair codes: 0 (none) and the three pairs of init_screen
Colors == 0..3

InitMsg ==
    /\ tick_rate = None
    /\ overridden = FALSE
    /\ quit = FALSE
    /\ input_str = <<>>
    /\ start = <<>>
    /\ typed = <<>>
    /\ display = Window
    /\ command = Window
    /\ rows \in 1..MaxRows
    /\ cols \in 1..MaxCols
    /\ written = <<>>
    /\ screen = "curses"
    /\ echo = FALSE
    /\ cbreak = TRUE
    /\ keypad = TRUE
    /\ nodelay = FALSE
    /\ err = NoError
    /\ raised = NoError
    /\ ticks = 0
    /\ keys = 0
    /\ cleanups = 0
    /\ calls = <<>>
    /\ script = -1
    /\ NoLoop
    /\ Instant
    /\ pc = "message"

\* mutant: the difference is halved, not each term
CenterColumnJoint(width, n) == (width - n) \div 2

\* mutant: the message length is not halved
CenterColumnNoHalf(width, n) == (width \div 2) - n

\* (self.cols // 2) - (len(msg) // 2)
CenterColumn(width, n) == (width \div 2) - (n \div 2)

\* self.rows - 1
BottomRow(height) == height - 1

\* self.display.addstr(row, col, msg, color)
Addstr(row, col, msg, color) ==
    /\ pc = "message"
    /\ written' = <<[row |-> row, col |-> col, msg |-> msg, color |-> color]>>
    /\ pc' = "written"
    /\ UNCHANGED <<cmdwin, late, env, clock, rows, cols, edit, conf, quit,
                   input_str, wins, term, err,
                   raised, hist, calls>>

\* alert_message(msg, color)
AlertMessage ==
    \E msg \in Messages, color \in Colors :
        Addstr(BottomRow(rows), CenterColumn(cols, Len(msg)), msg, color)

\* top_message(msg, color)
TopMessage ==
    \E msg \in Messages, color \in Colors :
        Addstr(0, CenterColumn(cols, Len(msg)), msg, color)

NextMsg ==
    \/ AlertMessage
    \/ TopMessage

SpecMsg == InitMsg /\ [][NextMsg]_vars

---------------------------------------------------------------------------
(* The claims. *)

\* the key of the last parse_input call of the line-editor harness
LastTyped == typed'[Len(typed')]

\* the printable character codes, space to '~'
Printable == 32..126

\* C1: an error raised by tick or by parse_command inside the loop is followed
\* by exactly one cleanup_screen (keypad off, cbreak off, echo on, endwin)
\* before run() returns, and run() raises that same error to its caller.
C1_CleanupThenReraise ==
    err \in {TickError, CommandError} =>
        /\ pc \in {"cleanup", "returned"}
        /\ pc = "cleanup" => cleanups = 0 /\ raised = NoError
        /\ pc = "returned" =>
            /\ cleanups = 1
            /\ ~keypad /\ ~cbreak /\ echo /\ screen = "shell"
            /\ raised = err

C1_Witness ==
    pc = "returned" /\ err = TickError /\ raised = TickError /\ cleanups = 1

\* C2: after a Submit keystroke was processed the buffer is empty, whether
\* parse_command returned or raised.
C2_SubmitAlwaysClears == calls # <<>> => input_str = <<>>

\* C3: a Submit keystroke calls parse_command exactly once, with the buffer
\* as it was before the keystroke, and the buffer is cleared after the call;
\* no other keystroke calls parse_command.
C3_SubmitDispatchesOnce ==
    [][typed' # typed =>
        /\ calls' = IF LastTyped = 10 THEN <<input_str>> ELSE <<>>
        /\ LastTyped = 10 /\ err' = NoError => input_str' = <<>>]_vars

C3_Witness ==
    /\ typed # <<>>
    /\ typed[Len(typed)] = 10
    /\ calls = <<QuitCmd>>
    /\ input_str = <<>>

\* C4: in blocking mode with the default hooks, a run() started with an empty
\* buffer and quit false that reads q, u, i, t, newline has the quit flag
\* set, reads no further key, calls tick no more, and returns without error
\* with the terminal restored.
C4_QuitScript ==
    /\ script <= Len(QuitKeys)
    /\ script = Len(QuitKeys) =>
        /\ quit
        /\ keys = 5
        /\ err = NoError
        /\ pc \in {"redraw", "while", "cleanup", "returned"}
        /\ pc = "returned" =>
            /\ raised = NoError
            /\ cleanups = 1
            /\ echo /\ ~cbreak /\ screen = "shell"

C4_Witness ==
    script = Len(QuitKeys) /\ pc = "returned" /\ quit /\ tick_rate = None

\* C5: the default parse_command sets the quit flag exactly when the command
\* is 'quit'; for any other string, 'QUIT', 'quit ', ' quit' and '' among
\* them, the quit flag and the rest of the state stay as they were.
C5_QuitExactMatch ==
    [][pc = "dispatch" /\ pc' = "dispatched" =>
        /\ input_str = <<113, 117, 105, 116>> => quit'
        /\ input_str # <<113, 117, 105, 116>> => quit' = quit
        /\ UNCHANGED <<input_str, conf, wins, term, err, raised>>]_vars

C5_Witness ==
    /\ pc = "dispatched"
    /\ calls = <<<<81, 85, 73, 84>>>>
    /\ ~quit

\* C6, as claimed: in blocking mode the number of tick invocations equals the
\* number of keystrokes read at every point of the run.
C6_TicksEqualKeys == tick_rate = None => ticks = keys

\* C6, amended: in blocking mode tick is called once before the first key is
\* read and once after every key read while quit is false, never without a
\* new key: the ticks exceed the keys read by one while the loop waits for a
\* key (and after tick raised), and equal them elsewhere.
C6_TickThenKey ==
    tick_rate = None =>
        /\ keys <= ticks /\ ticks <= keys + 1
        /\ pc = "getch" => ticks = keys + 1
        /\ pc \in {"init_screen", "setup", "while", "tick", "redraw"} => ticks = keys
        /\ pc \in {"cleanup", "returned"} =>
            ticks = IF err = TickError THEN keys + 1 ELSE keys

C6_Witness ==
    tick_rate = None /\ pc = "getch" /\ ticks = 1 /\ keys = 0

\* C7: in polling mode the read never waits: the command window is in nodelay
\* mode at every read, a read of NoInput leaves the buffer and the quit flag
\* alone and calls no parse_command, the redraw is followed by the sleep, and
\* with no key ever ready every tick that leaves the quit flag false is
\* followed by another tick.
C7_PollingTicksWithoutInput ==
    /\ [](tick_rate # None /\ pc = "getch" => nodelay)
    /\ [][pc = "getch" /\ pc' # "getch" /\ keys' = keys =>
            /\ UNCHANGED <<input_str, quit>>
            /\ calls' = <<>>
            /\ pc' = "redraw"]_vars
    /\ [][tick_rate # None /\ pc = "redraw" /\ pc' # pc => pc' = "sleep"]_vars
    /\ \A n \in 1..(MaxIter - 1) :
        (tick_rate # None /\ pc = "getch" /\ ticks = n /\ ~quit) ~> (ticks = n + 1)

C7_Witness ==
    tick_rate # None /\ pc = "getch" /\ ticks = 3 /\ keys = 0 /\ ~quit

\* C8: when init_screen fails, tick is never called, no key is read, and the
\* error run() raises is the failure of init_screen.
C8_InitFailurePropagates ==
    err = CursesError =>
        /\ ticks = 0 /\ keys = 0
        /\ pc = "returned" => raised = CursesError

\* C9, as claimed: line feed (10) and carriage return (13) both submit (the
\* buffer is dispatched, and cleared when the dispatch returns), backspace (8)
\* erases, and every other non-printable code changes nothing.
C9_NewlineAndReturnSubmit ==
    [][typed' # typed =>
        /\ LastTyped \in {10, 13} =>
            /\ calls' = <<input_str>>
            /\ err' = NoError => input_str' = <<>>
        /\ LastTyped = 8 =>
            calls' = <<>> /\ input_str' = ButLast(input_str) /\ quit' = quit
        /\ LastTyped \notin Printable \cup {8, 10, 13} =>
            calls' = <<>> /\ input_str' = input_str /\ quit' = quit]_vars

\* C9, amended: only line feed (10) submits; carriage return (13) is Other
\* like every code that is neither printable, 10 nor 8: no dispatch, buffer
\* and quit flag unchanged.  Backspace (8) erases.
C9_OnlyNewlineSubmits ==
    [][typed' # typed =>
        /\ LastTyped = 10 =>
            /\ calls' = <<input_str>>
            /\ err' = NoError => input_str' = <<>>
        /\ LastTyped = 8 =>
            calls' = <<>> /\ input_str' = ButLast(input_str) /\ quit' = quit
        /\ LastTyped \notin Printable \cup {8, 10} =>
            calls' = <<>> /\ input_str' = input_str /\ quit' = quit]_vars

C9_Witness ==
    /\ typed = <<13>>
    /\ start # <<>>
    /\ input_str = start
    /\ calls = <<>>

\* C10: after printable keys only, the buffer is the buffer the editor started
\* from followed by those characters, in the order typed.
C10_PrintableKeysConcatenate ==
    (\A i \in 1..Len(typed) : typed[i] \in Printable) => input_str = start \o typed

C10_Witness ==
    /\ Len(typed) >= 3
    /\ \A i \in 1..Len(typed) : typed[i] \in Printable
    /\ typed[1] # typed[2]
    /\ start # <<>>
    /\ input_str = start \o typed

\* C11: an Erase keystroke (8) removes exactly the last character of a
\* non-empty buffer and leaves an empty buffer empty; it raises nothing, calls
\* no parse_command and leaves the quit flag alone.
C11_EraseDropsLast ==
    [][typed' # typed /\ LastTyped = 8 =>
        /\ Len(input_str') = IF Len(input_str) = 0 THEN 0 ELSE Len(input_str) - 1
        /\ \A i \in 1..Len(input_str') : input_str'[i] = input_str[i]
        /\ err' = NoError /\ pc' = "edit"
        /\ calls' = <<>>
        /\ quit' = quit]_vars

C11_Witness ==
    /\ typed = <<8, 8, 8>>
    /\ start = <<113, 117, 105, 116>>
    /\ input_str = <<113>>


\* C12: alert_message and top_message write the message at start column
\* cols/2 - len(msg)/2 of the display, both divisions truncating (a message of
\* 4 characters on 21 columns starts at column 8), alert_message on row
\* rows - 1 and top_message on row 0; the one write made is the message itself
\* with the color asked for, and no other row is written.
C12_MessagePlacement ==
    [][/\ written' # written =>
            /\ Len(written') = 1
            /\ written'[1].col =
                   (cols \div 2) - (Len(written'[1].msg) \div 2)
            /\ written'[1].row \in {0, rows - 1}
            /\ (cols = 21 /\ Len(written'[1].msg) = 4) => written'[1].col = 8
       /\ AlertMessage => written'[1].row = rows - 1
       /\ TopMessage => written'[1].row = 0
       /\ UNCHANGED <<rows, cols>>]_vars

C12_Witness ==
    /\ pc = "written"
    /\ rows = 3
    /\ cols = 21
    /\ written = <<[row |-> 2, col |-> 8, msg |-> <<120, 120, 32, 120>>,
                    color |-> 1]>>

\* C20: for every display width cols >= 1 and every message no longer than
\* cols, the start column computed by alert_message and top_message is >= 0
\* and start column + len(msg) <= cols; for a message longer than cols the
\* start column is negative or the message runs past the right edge.
C20_FitsWhenShortEnough ==
    (pc = "written" /\ cols >= 1) =>
        LET col == written[1].col
            n   == Len(written[1].msg)
        IN  /\ n <= cols => (col >= 0 /\ col + n <= cols)
            /\ n > cols => (col < 0 \/ col + n > cols)

C20_Witness ==
    /\ pc = "written"
    /\ cols = 3
    /\ written = <<[row |-> 0, col |-> 0, msg |-> <<120, 32, 120>>,
                    color |-> 0]>>

\* C13: every run() starts with the quit flag false, so its loop body runs and
\* tick is called at least once: a run() that has returned without an
\* exception has called tick at least once, also when it was started on an
\* object whose previous run() ended through the quit command.
C13_EveryRunTicks ==
    (pc = "returned" /\ err = NoError) => ticks >= 1

\* C14: once the quit flag is true during the loop of a run(), tick is not
\* invoked again in that run, and at most one more read of input, one more
\* redraw of the command window and one more sleep are performed before the
\* teardown: the flag is tested only at the top of the loop.
C14_QuitStopsWithinOneIteration ==
    /\ late.ticks = 0
    /\ late.reads <= 1
    /\ late.redraws <= 1
    /\ late.sleeps <= 1
    /\ pc = "tick" => ~quit

C14_Witness ==
    /\ pc = "returned"
    /\ raised = NoError
    /\ quit
    /\ ticks = 2
    /\ late = [ticks |-> 0, reads |-> 1, redraws |-> 1, sleeps |-> 1]

\* the loop of run() is over and the terminal is as the shell left it
Stopped ==
    /\ pc = "returned"
    /\ screen = "shell" /\ echo /\ ~cbreak /\ ~keypad /\ ~nodelay

\* C15 as claimed: whenever the quit flag is true inside the loop, set by
\* parse_command or by tick, polling or blocking, the run reaches Stopped with
\* the terminal restored, whether or not another key arrives.
C15_QuitLeadsToStopped ==
    (quit /\ pc \in {"getch", "redraw", "sleep", "while", "cleanup"}) ~> Stopped

\* C15 amended: the run reaches Stopped without a further key when the flag
\* was set by parse_command, or by tick in polling mode; when tick set it in
\* blocking mode, the loop stays in the read until one more key arrives.
C15_QuitLeadsToStoppedAfterRead ==
    /\ (quit /\ pc \in {"redraw", "sleep", "while", "cleanup"}) ~> Stopped
    /\ (quit /\ pc = "getch" /\ tick_rate # None) ~> Stopped
    /\ [][quit /\ pc = "getch" /\ tick_rate = None /\ pc' # pc =>
            keys' = keys + 1]_vars

C15_Witness ==
    /\ Stopped
    /\ tick_rate = None
    /\ quit
    /\ ticks = 2
    /\ keys = 2
    /\ late = [ticks |-> 0, reads |-> 1, redraws |-> 1, sleeps |-> 0]

\* C16: the dt passed to a tick equals the time elapsed since the previous
\* iteration's timestamp (the start timestamp for the first tick), the time
\* spent sleeping in polling mode and waiting for a key in blocking mode
\* included.
C16_DtIsElapsedTime ==
    ticks >= 1 => dt = gap

\* C17: at the end of every loop iteration, the one in which the quit flag
\* was set and those without a key included, the command window shows exactly
\* " > " followed by the buffer as it is after the iteration's key; after
\* setup and before the first iteration it shows exactly " > ".
C17_CommandWindowShowsBuffer ==
    /\ (pc = "sleep" \/ (pc = "while" /\ ticks >= 1)) =>
            cmdwin = <<32, 62, 32>> \o input_str
    /\ (pc = "while" /\ ticks = 0) => cmdwin = <<32, 62, 32>>

C17_Witness ==
    /\ pc = "while"
    /\ ticks = 3
    /\ keys = 3
    /\ input_str = <<113>>
    /\ cmdwin = <<32, 62, 32, 113>>

\* the key codes of the model: what a read of the loop returns and what the
\* line-editor harness feeds
KeyCodes == {NoInput} \cup RunKeys \cup EditKeys

\* no key code passes two of the checks isprint, == NL, == BS
ChecksExclusive ==
    \A c \in KeyCodes :
        /\ ~(IsPrint(c) /\ c = 10)
        /\ ~(IsPrint(c) /\ c = 8)
        /\ ~(c = 10 /\ c = 8)

\* C18: for every key code at most one of the checks printable / newline /
\* backspace of parse_input is true, so a key read by the loop makes exactly
\* one of the transitions append, submit, erase or none; a key matching no
\* check, and NoInput (-1) on a polling read, leave the buffer and the quit
\* flag unchanged and dispatch nothing.
C18_OneTransitionPerKey ==
    [][pc = "getch" =>
        /\ ChecksExclusive
        /\ \A ch \in {NoInput} \cup RunKeys :
            (GetchKey(ch, FALSE) \/ (ch = 10 /\ GetchKey(ch, TRUE))) =>
                /\ (32 <= ch /\ ch <= 126) =>
                        /\ input_str' = input_str \o <<ch>>
                        /\ calls' = <<>>
                        /\ quit' = quit
                /\ ch = 10 =>
                        /\ calls' = <<input_str>>
                        /\ input_str' \in {<<>>, input_str}
                /\ ch = 8 =>
                        /\ input_str' = SubSeq(input_str, 1, Len(input_str) - 1)
                        /\ calls' = <<>>
                        /\ quit' = quit
                /\ (ch < 32 \/ ch > 126) /\ ch \notin {8, 10} =>
                        /\ UNCHANGED <<input_str, quit>>
                        /\ calls' = <<>>
                        /\ err' = NoError]_vars

C18_Witness ==
    /\ tick_rate # None
    /\ pc = "redraw"
    /\ ticks = 3
    /\ keys = 2
    /\ script = -1
    /\ input_str = <<113>>
    /\ ~quit

\* C19: after any sequence of keys fed to parse_input from the empty buffer,
\* every character of the buffer is printable (32..126), so every string
\* handed to parse_command consists of printable characters only.
C19_BufferIsPrintable ==
    /\ \A i \in 1..Len(input_str) : input_str[i] \in 32..126
    /\ \A k \in 1..Len(calls) : \A i \in 1..Len(calls[k]) : calls[k][i] \in 32..126

C19_Witness ==
    /\ start = <<>>
    /\ typed = <<31, 116, 127>>
    /\ input_str = <<116>>
=============================================================================
